---- MODULE Spec2Model ----
(***************************************************************************)
(* Model of the sales time-series service: the Express route               *)
(* GET /api/sales/timeseries (routes/salesRoutes.js), the query builder    *)
(* getTimeSeriesSales and the row formatter formatTimeSeriesData           *)
(* (services/salesService.js), the singleton getClient (services/db.js),   *)
(* and the relational store that evaluates the SQL text the service        *)
(* builds.                                                                 *)
(*                                                                         *)
(* JavaScript values:                                                      *)
(*   undefined            [t |-> "undefined"]                              *)
(*   a string             [t |-> "string", v |-> ...]; v is a TLA+ string  *)
(*                        for granularity, groupBy, startDate and endDate, *)
(*                        and a tuple of one-character strings for userId  *)
(*                        and groupId (the code splits and parses those).  *)
(* Time: an instant is a number of ticks, TicksPerDay ticks a day, day 0   *)
(* being 2021-01-01.                                                       *)
(***************************************************************************)
EXTENDS Integers, Sequences, FiniteSets, TLC

VARIABLES
    sales,        \* relation sales: sequence of [id, user_id, amount, date]
    user_groups,  \* relation user_groups: set of [user_id, group_id]
    client,       \* db.js `client`: "null" or the id of the constructed Client
    constructed,  \* how many times `new Client(...)` ran
    connects,     \* how many times client.connect() ran
    returned,     \* the Client instances getClient() has returned so far
    held,         \* the instance another caller of getClient() got, 0 before
    pc,           \* "idle", "awaiting" (client.query in flight), "done" (call over)
    entry,        \* who made the current call: "none", "http", "direct"
    req,          \* req.query of the current HTTP request
    svcCalls,     \* the options of every getTimeSeriesSales call of this request
    queries,      \* every [text, params] handed to client.query in this request
    settled,      \* outcome of the getTimeSeriesSales promise
    formatted,    \* outcome of formatTimeSeriesData(rows, groupBy)
    responses     \* every response written for this request

vars == <<sales, user_groups, client, constructed, connects, returned, held, pc, entry,
          req,
          svcCalls, queries, settled, formatted, responses>>

----------------------------------------------------------------------------
(* Bounds of the model *)

\* at most this many rows in the sales relation
MaxSales == 2
\* longest userId / groupId query string explored character by character
MaxIdLen == 3
\* resolution of an instant within a day
TicksPerDay == 2
\* at most this many sales in the stores the metrics are explored on
MaxBucketSales == 3

----------------------------------------------------------------------------
(* JavaScript values and string primitives *)

Undefined == [t |-> "undefined"]

Str(s) == [t |-> "string", v |-> s]

IsUndefined(x) == x.t = "undefined"

\* destructuring default `name = dflt`: applies to undefined only
Default(x, dflt) == IF IsUndefined(x) THEN Str(dflt) ELSE x

\* truthiness of a value whose string payload is a TLA+ string
Truthy(x) == x.t = "string" /\ x.v # ""

\* truthiness of a value whose string payload is a tuple of characters
TruthyChars(x) == x.t = "string" /\ Len(x.v) > 0

Null == [t |-> "null"]

\* `x || null`
OrNull(x) == IF Truthy(x) THEN x ELSE Null

OrNullChars(x) == IF TruthyChars(x) THEN x ELSE Null

Digits == {"0", "1", "2", "3", "4", "5", "6", "7", "8", "9"}

HexDigits ==
    Digits \cup {"a", "b", "c", "d", "e", "f", "A", "B", "C", "D", "E", "F"}

\* the digits of a radix (10 or 16)
DigitsOf(radix) == IF radix = 16 THEN HexDigits ELSE Digits

DigitVal(c) ==
    CASE c = "0" -> 0 [] c = "1" -> 1 [] c = "2" -> 2 [] c = "3" -> 3
      [] c = "4" -> 4 [] c = "5" -> 5 [] c = "6" -> 6 [] c = "7" -> 7
      [] c = "8" -> 8 [] c = "9" -> 9
      [] c \in {"a", "A"} -> 10 [] c \in {"b", "B"} -> 11
      [] c \in {"c", "C"} -> 12 [] c \in {"d", "D"} -> 13
      [] c \in {"e", "E"} -> 14 [] c \in {"f", "F"} -> 15

DigitChar(d) == <<"0", "1", "2", "3", "4", "5", "6", "7", "8", "9">>[d + 1]

\* the white space trim() and parseInt skip, as far as the inputs hold any
WhiteSpace == {" "}

\* String.prototype.split(','): the pieces between the commas, empty ones kept
RECURSIVE SplitFrom(_, _, _)
SplitFrom(s, i, cur) ==
    IF i > Len(s) THEN <<cur>>
    ELSE IF s[i] = "," THEN <<cur>> \o SplitFrom(s, i + 1, <<>>)
    ELSE SplitFrom(s, i + 1, Append(cur, s[i]))

Split(s) == SplitFrom(s, 1, <<>>)

RECURSIVE TrimStart(_)
TrimStart(s) ==
    IF Len(s) > 0 /\ Head(s) \in WhiteSpace THEN TrimStart(Tail(s)) ELSE s

RECURSIVE TrimEnd(_)
TrimEnd(s) ==
    IF Len(s) > 0 /\ s[Len(s)] \in WhiteSpace
    THEN TrimEnd(SubSeq(s, 1, Len(s) - 1)) ELSE s

\* String.prototype.trim()
Trim(s) == TrimEnd(TrimStart(s))

\* the longest prefix of s made of digits of the radix
RECURSIVE DigitPrefix(_, _)
DigitPrefix(s, radix) ==
    IF Len(s) > 0 /\ Head(s) \in DigitsOf(radix)
    THEN <<Head(s)>> \o DigitPrefix(Tail(s), radix) ELSE <<>>

RECURSIVE RadixValue(_, _, _)
RadixValue(s, radix, acc) ==
    IF Len(s) = 0 THEN acc
    ELSE RadixValue(Tail(s), radix, radix * acc + DigitVal(Head(s)))

DigitsValue(s, acc) == RadixValue(s, 10, acc)

NaN == [nan |-> TRUE, n |-> 0]

Num(n) == [nan |-> FALSE, n |-> n]

\* parseInt(string), no radix given: leading white space skipped, an optional
\* sign, a 0x or 0X that makes the radix 16, then the longest run of digits of
\* the radix; NaN when that run is empty.  What follows the digits is ignored.
ParseInt(s) ==
    LET t     == TrimStart(s)
        neg   == Len(t) > 0 /\ Head(t) = "-"
        body  == IF Len(t) > 0 /\ Head(t) \in {"-", "+"} THEN Tail(t) ELSE t
        hex   == Len(body) >= 2 /\ body[1] = "0" /\ body[2] \in {"x", "X"}
        radix == IF hex THEN 16 ELSE 10
        ds    == DigitPrefix(IF hex THEN SubSeq(body, 3, Len(body)) ELSE body, radix)
    IN  IF Len(ds) = 0 THEN NaN
        ELSE Num(IF neg THEN 0 - RadixValue(ds, radix, 0) ELSE RadixValue(ds, radix, 0))

\* parseFloat(string) of a decimal numeral with at most two fraction digits,
\* as a number of hundredths
ParseFloat100(s) ==
    LET t     == TrimStart(s)
        neg   == Len(t) > 0 /\ Head(t) = "-"
        body  == IF Len(t) > 0 /\ Head(t) \in {"-", "+"} THEN Tail(t) ELSE t
        ip    == DigitPrefix(body, 10)
        rest  == SubSeq(body, Len(ip) + 1, Len(body))
        fp    == IF Len(rest) > 0 /\ Head(rest) = "." THEN DigitPrefix(Tail(rest), 10)
                 ELSE <<>>
        f2    == SubSeq(fp \o <<"0", "0">>, 1, 2)
        mag   == 100 * DigitsValue(ip, 0) + DigitsValue(f2, 0)
    IN  IF Len(ip) = 0 /\ Len(fp) = 0 THEN NaN
        ELSE Num(IF neg THEN 0 - mag ELSE mag)

\* the decimal numeral of a natural number
RECURSIVE NatToChars(_)
NatToChars(n) ==
    IF n < 10 THEN <<DigitChar(n)>>
    ELSE NatToChars(n \div 10) \o <<DigitChar(n % 10)>>

IntToChars(n) == IF n < 0 THEN <<"-">> \o NatToChars(0 - n) ELSE NatToChars(n)

\* the numeral, with two fraction digits, of a number of hundredths
Numeric2ToChars(h) ==
    LET m == IF h < 0 THEN 0 - h ELSE h
    IN  (IF h < 0 THEN <<"-">> ELSE <<>>) \o NatToChars(m \div 100)
        \o <<".", DigitChar((m % 100) \div 10), DigitChar(m % 10)>>

----------------------------------------------------------------------------
(* The relational store: users, groups, user_groups, sales *)

\* relation users (id, name, role)
Users ==
    { [id |-> 1, name |-> "Alice", role |-> "Agent"],
      [id |-> 2, name |-> "Bob",   role |-> "Agent"] }

\* relation groups (id, name)
Groups ==
    { [id |-> 1, name |-> "Sales Team"],
      [id |-> 2, name |-> "Support"] }

\* the calendar of 2021: the day number of the first day of each month
MonthStarts == <<0, 31, 59, 90, 120, 151, 181, 212, 243, 273, 304, 334>>

\* the dates the model writes as YYYY-MM-DD text, with their day number
DateTable ==
    { [text |-> "2021-06-01", day |-> 151],
      [text |-> "2021-06-06", day |-> 156],
      [text |-> "2021-06-07", day |-> 157] }

IsDateText(s) == \E d \in DateTable : d.text = s

\* the store's reading of a bound text parameter compared with s.date:
\* midnight at the start of that calendar day
TimestampOfText(s) ==
    (CHOOSE d \in DateTable : d.text = s).day * TicksPerDay

At(day, tick) == day * TicksPerDay + tick

\* the instants at which the modelled sales occur: 2021-06-01 00:00 (Tuesday),
\* 2021-06-06 later in the day (Sunday, same week, same month) and
\* 2021-06-07 00:00 (Monday, next week, same month)
SaleInstants == { At(151, 0), At(156, 1), At(157, 0) }

SaleAmounts == {100, 300}

DayOf(ts) == ts \div TicksPerDay

\* 2021-01-01 (day 0) is a Friday; weeks start on Monday
WeekStartDay(d) == d - ((d + 4) % 7)

MonthStartDay(d) ==
    LET m == CHOOSE k \in 1..12 :
                 /\ MonthStarts[k] <= d
                 /\ (k = 12 \/ d < MonthStarts[k + 1])
    IN  MonthStarts[m]

\* DATE_TRUNC(unit, ts): the start instant of the window holding ts
DATE_TRUNC(unit, ts) ==
    CASE unit = "day"   -> DayOf(ts) * TicksPerDay
      [] unit = "week"  -> WeekStartDay(DayOf(ts)) * TicksPerDay
      [] unit = "month" -> MonthStartDay(DayOf(ts)) * TicksPerDay

SaleRows == [user_id : {u.id : u \in Users}, amount : SaleAmounts, date : SaleInstants]

\* rows are inserted in the order the sales happen
InsertedInOrder(a, b) ==
    \/ a.date < b.date
    \/ a.date = b.date /\ a.user_id < b.user_id
    \/ a.date = b.date /\ a.user_id = b.user_id /\ a.amount <= b.amount

\* the contents of relation sales the model starts from: every sequence of at
\* most MaxSales rows, row i having id i
SalesContents ==
    UNION { { f \in [1..n -> SaleRows] :
                \A i \in 1..(n - 1) : InsertedInOrder(f[i], f[i + 1]) }
            : n \in 0..MaxSales }

\* the contents of relation user_groups the model starts from: user 1 in both
\* groups and user 2 in one; or user 1 in one group and user 2 in none
MembershipContents ==
    { { [user_id |-> 1, group_id |-> 1], [user_id |-> 1, group_id |-> 2],
        [user_id |-> 2, group_id |-> 2] },
      { [user_id |-> 1, group_id |-> 1] } }

----------------------------------------------------------------------------
(* services/salesService.js: getTimeSeriesSales, up to the call of client.query *)

VALID_GRANULARITIES == {"day", "week", "month"}

VALID_GROUP_BY == {"user", "group"}

\* a bound parameter: a text value, or an array of integers
TextParam(s) == [type |-> "text", text |-> s]

IntArrayParam(a) == [type |-> "int[]", ints |-> a]

\* one ` AND <col> <op> $<ph>` appended to the WHERE clause
Pred(col, op, ph) == [col |-> col, op |-> op, ph |-> ph]

\* the two query templates: select list and join path
UserTemplate(granularity) ==
    [ trunc   |-> granularity,
      from    |-> "sales s JOIN users u",
      select  |-> <<"time_window", "user_id", "user_name", "user_role",
                    "sale_count", "total_revenue", "avg_revenue",
                    "min_sale", "max_sale">>,
      where   |-> <<>>,
      groupBy |-> <<>>,
      orderBy |-> <<>> ]

GroupTemplate(granularity) ==
    [ trunc   |-> granularity,
      from    |-> "sales s JOIN users u JOIN user_groups ug JOIN groups g",
      select  |-> <<"time_window", "group_id", "group_name",
                    "sale_count", "total_revenue", "avg_revenue",
                    "min_sale", "max_sale">>,
      where   |-> <<>>,
      groupBy |-> <<>>,
      orderBy |-> <<>> ]

\* id.split(',').map(id => parseInt(id.trim()))
RECURSIVE MapParseInt(_)
MapParseInt(tokens) ==
    IF Len(tokens) = 0 THEN <<>>
    ELSE <<ParseInt(Trim(Head(tokens)))>> \o MapParseInt(Tail(tokens))

\* a filter that lets NaN through, as 0
RECURSIVE FilterNotNaN_KeepAll(_)
FilterNotNaN_KeepAll(parsed) ==
    IF Len(parsed) = 0 THEN <<>>
    ELSE <<Head(parsed).n>> \o FilterNotNaN_KeepAll(Tail(parsed))

\* .filter(id => !isNaN(id))
RECURSIVE FilterNotNaN(_)
FilterNotNaN(parsed) ==
    IF Len(parsed) = 0 THEN <<>>
    ELSE (IF Head(parsed).nan THEN <<>> ELSE <<Head(parsed).n>>)
         \o FilterNotNaN(Tail(parsed))

\* userId.split(',').map(id => parseInt(id.trim())).filter(id => !isNaN(id))
ParseIdList(s) == FilterNotNaN(MapParseInt(Split(s)))

\* a builder state: the query text so far, params and paramIndex
Builder(q) == [query |-> q, params |-> <<>>, paramIndex |-> 1]

\* a predicate appended without advancing paramIndex
AddPred_IndexNotAdvanced(b, col, op, param) ==
    [ query      |-> [b.query EXCEPT !.where = Append(@, Pred(col, op, b.paramIndex))],
      params     |-> Append(b.params, param),
      paramIndex |-> b.paramIndex ]

AddPred(b, col, op, param) ==
    [ query      |-> [b.query EXCEPT !.where = Append(@, Pred(col, op, b.paramIndex))],
      params     |-> Append(b.params, param),
      paramIndex |-> b.paramIndex + 1 ]

\* if (startDate) { query += ` AND s.date >= $n`; params.push(startDate) }
AddStartDate(b, startDate) ==
    IF Truthy(startDate) THEN AddPred(b, "s.date", ">=", TextParam(startDate.v)) ELSE b

\* if (endDate) { query += ` AND s.date <= $n`; params.push(endDate) }
AddEndDate(b, endDate) ==
    IF Truthy(endDate) THEN AddPred(b, "s.date", "<=", TextParam(endDate.v)) ELSE b

\* the user filter without the groupBy test
AddUserIds_AnyGroupBy(b, userId, groupBy) ==
    IF TruthyChars(userId)
    THEN LET userIds == ParseIdList(userId.v)
         IN  IF Len(userIds) > 0
             THEN AddPred(b, "u.id", "= ANY", IntArrayParam(userIds))
             ELSE b
    ELSE b

\* the user filter without the length test: an empty list matches nothing
AddUserIds_FailClosed(b, userId, groupBy) ==
    IF TruthyChars(userId) /\ groupBy = "user"
    THEN AddPred(b, "u.id", "= ANY", IntArrayParam(ParseIdList(userId.v)))
    ELSE b

\* if (userId && groupBy === 'user') { ...; if (userIds.length > 0) {...} }
AddUserIds(b, userId, groupBy) ==
    IF TruthyChars(userId) /\ groupBy = "user"
    THEN LET userIds == ParseIdList(userId.v)
         IN  IF Len(userIds) > 0
             THEN AddPred(b, "u.id", "= ANY", IntArrayParam(userIds))
             ELSE b
    ELSE b

\* if (groupId && groupBy === 'group') { ...; if (groupIds.length > 0) {...} }
AddGroupIds(b, groupId, groupBy) ==
    IF TruthyChars(groupId) /\ groupBy = "group"
    THEN LET groupIds == ParseIdList(groupId.v)
         IN  IF Len(groupIds) > 0
             THEN AddPred(b, "g.id", "= ANY", IntArrayParam(groupIds))
             ELSE b
    ELSE b

\* a tail that orders by the time window alone
AddGroupOrder_TimeOnly(b, groupBy) ==
    [b EXCEPT
       !.query.groupBy =
           IF groupBy = "user" THEN <<"time_window", "u.id", "u.name", "u.role">>
           ELSE <<"time_window", "g.id", "g.name">>,
       !.query.orderBy = << [col |-> "time_window", dir |-> "DESC"] >> ]

\* a tail that also groups by the sale
AddGroupOrder_PerSale(b, groupBy) ==
    [b EXCEPT
       !.query.groupBy =
           IF groupBy = "user" THEN <<"time_window", "u.id", "u.name", "u.role", "s.id">>
           ELSE <<"time_window", "g.id", "g.name", "s.id">>,
       !.query.orderBy =
           << [col |-> "time_window", dir |-> "DESC"],
              [col |-> "total_revenue", dir |-> "DESC"] >> ]

\* the GROUP BY / ORDER BY tail of the query
AddGroupOrder(b, groupBy) ==
    [b EXCEPT
       !.query.groupBy =
           IF groupBy = "user" THEN <<"time_window", "u.id", "u.name", "u.role">>
           ELSE <<"time_window", "g.id", "g.name">>,
       !.query.orderBy =
           << [col |-> "time_window", dir |-> "DESC"],
              [col |-> "total_revenue", dir |-> "DESC"] >> ]

\* the query and parameters getTimeSeriesSales builds once validation passed
BuildQuery(granularity, groupBy, startDate, endDate, userId, groupId) ==
    LET b0 == Builder(IF groupBy = "user" THEN UserTemplate(granularity)
                      ELSE GroupTemplate(granularity))
        b1 == AddStartDate(b0, startDate)
        b2 == AddEndDate(b1, endDate)
        b3 == AddUserIds(b2, userId, groupBy)
        b4 == AddGroupIds(b3, groupId, groupBy)
        b5 == AddGroupOrder(b4, groupBy)
    IN  [text |-> b5.query, params |-> b5.params]

\* the service's validation without the groupBy check
ServiceValidation_GranularityOnly(granularity, groupBy) ==
    IF granularity.v \notin VALID_GRANULARITIES
    THEN <<"Invalid granularity: ", granularity.v, ". Must be one of: day, week, month">>
    ELSE <<"ok">>

\* the validation at the head of getTimeSeriesSales: "ok" or the Error thrown
ServiceValidation(granularity, groupBy) ==
    IF granularity.v \notin VALID_GRANULARITIES
    THEN <<"Invalid granularity: ", granularity.v, ". Must be one of: day, week, month">>
    ELSE IF groupBy.v \notin VALID_GROUP_BY
    THEN <<"Invalid groupBy: ", groupBy.v, ". Must be one of: user, group">>
    ELSE <<"ok">>

----------------------------------------------------------------------------
(* The store's evaluation of the query text with its bound parameters *)

Range(f) == { f[i] : i \in DOMAIN f }

\* a join that keeps one membership per user, the one of the least group id
FromRows_OneGroupPerUser(text) ==
    IF text.from = "sales s JOIN users u"
    THEN { [sid |-> r.sid, u |-> r.u, g |-> [id |-> 0, name |-> ""]] :
             r \in { x \in [sid : DOMAIN sales, u : Users] :
                       sales[x.sid].user_id = x.u.id } }
    ELSE { [sid |-> r.sid, u |-> r.u, g |-> r.g] :
             r \in { x \in [sid : DOMAIN sales, u : Users, ug : user_groups, g : Groups] :
                       /\ sales[x.sid].user_id = x.u.id
                       /\ x.u.id = x.ug.user_id
                       /\ x.ug.group_id = x.g.id
                       /\ \A m \in user_groups :
                              m.user_id = x.u.id => x.g.id <= m.group_id } }

\* the rows of the FROM clause: inner joins on the id columns
FromRows(text) ==
    IF text.from = "sales s JOIN users u"
    THEN { [sid |-> r.sid, u |-> r.u, g |-> [id |-> 0, name |-> ""]] :
             r \in { x \in [sid : DOMAIN sales, u : Users] :
                       sales[x.sid].user_id = x.u.id } }
    ELSE { [sid |-> r.sid, u |-> r.u, g |-> r.g] :
             r \in { x \in [sid : DOMAIN sales, u : Users, ug : user_groups, g : Groups] :
                       /\ sales[x.sid].user_id = x.u.id
                       /\ x.u.id = x.ug.user_id
                       /\ x.ug.group_id = x.g.id } }

\* the value of a column expression on a joined row
ColValue(col, r, trunc) ==
    CASE col = "time_window" -> DATE_TRUNC(trunc, sales[r.sid].date)
      [] col = "s.id"        -> r.sid
      [] col = "u.id"        -> r.u.id
      [] col = "u.name"      -> r.u.name
      [] col = "u.role"      -> r.u.role
      [] col = "g.id"        -> r.g.id
      [] col = "g.name"      -> r.g.name

\* one predicate of the WHERE clause on a joined row
PredHolds(p, params, r) ==
    CASE p.col = "s.date" /\ p.op = ">=" ->
             sales[r.sid].date >= TimestampOfText(params[p.ph].text)
      [] p.col = "s.date" /\ p.op = "<=" ->
             sales[r.sid].date <= TimestampOfText(params[p.ph].text)
      [] p.col = "u.id" -> r.u.id \in Range(params[p.ph].ints)
      [] p.col = "g.id" -> r.g.id \in Range(params[p.ph].ints)

WhereRows(text, params) ==
    { r \in FromRows(text) :
        \A k \in DOMAIN text.where : PredHolds(text.where[k], params, r) }

GroupKey(text, r) ==
    [k \in DOMAIN text.groupBy |-> ColValue(text.groupBy[k], r, text.trunc)]

RECURSIVE SumAmounts(_)
SumAmounts(rs) ==
    IF rs = {} THEN 0
    ELSE LET r == CHOOSE x \in rs : TRUE
         IN  sales[r.sid].amount + SumAmounts(rs \ {r})

MinAmount(rs) ==
    CHOOSE a \in {sales[r.sid].amount : r \in rs} :
        \A r \in rs : a <= sales[r.sid].amount

MaxAmount(rs) ==
    CHOOSE a \in {sales[r.sid].amount : r \in rs} :
        \A r \in rs : a >= sales[r.sid].amount

\* ROUND(AVG(s.amount), 2) as a number of hundredths, halves away from zero
RoundAvg100(sum, count) ==
    IF sum >= 0 THEN (200 * sum + count) \div (2 * count)
    ELSE 0 - ((200 * (0 - sum) + count) \div (2 * count))

\* one output group with its aggregates, before the values are written out
Aggregate(text, rs) ==
    LET r == CHOOSE x \in rs : TRUE
    IN  [ time_window   |-> ColValue("time_window", r, text.trunc),
          u             |-> r.u,
          g             |-> r.g,
          sale_count    |-> Cardinality(rs),
          total_revenue |-> SumAmounts(rs),
          avg_revenue   |-> RoundAvg100(SumAmounts(rs), Cardinality(rs)),
          min_sale      |-> MinAmount(rs),
          max_sale      |-> MaxAmount(rs) ]

\* GROUP BY: one aggregate per distinct key
Grouped(text, params) ==
    LET rows == WhereRows(text, params)
        keys == { GroupKey(text, r) : r \in rows }
    IN  { Aggregate(text, { r \in rows : GroupKey(text, r) = k }) : k \in keys }

\* a sorts strictly before b under the ORDER BY list ob
RECURSIVE Before(_, _, _)
Before(a, b, ob) ==
    IF Len(ob) = 0 THEN FALSE
    ELSE LET x == a[Head(ob).col]
             y == b[Head(ob).col]
         IN  IF x # y THEN (IF Head(ob).dir = "DESC" THEN x > y ELSE x < y)
             ELSE Before(a, b, Tail(ob))

\* every order of the groups the ORDER BY list allows (ties are unordered)
RECURSIVE Orderings(_, _)
Orderings(gs, ob) ==
    IF gs = {} THEN { <<>> }
    ELSE UNION { { <<h>> \o t : t \in Orderings(gs \ {h}, ob) } :
                 h \in { x \in gs : \A y \in gs : ~Before(y, x, ob) } }

\* a result row as the driver hands it over: aggregates as numerals
ResultRow(text, a) ==
    IF text.from = "sales s JOIN users u"
    THEN [ time_window   |-> a.time_window,
           user_id       |-> a.u.id,
           user_name     |-> a.u.name,
           user_role     |-> a.u.role,
           sale_count    |-> IntToChars(a.sale_count),
           total_revenue |-> IntToChars(a.total_revenue),
           avg_revenue   |-> Numeric2ToChars(a.avg_revenue),
           min_sale      |-> IntToChars(a.min_sale),
           max_sale      |-> IntToChars(a.max_sale) ]
    ELSE [ time_window   |-> a.time_window,
           group_id      |-> a.g.id,
           group_name    |-> a.g.name,
           sale_count    |-> IntToChars(a.sale_count),
           total_revenue |-> IntToChars(a.total_revenue),
           avg_revenue   |-> Numeric2ToChars(a.avg_revenue),
           min_sale      |-> IntToChars(a.min_sale),
           max_sale      |-> IntToChars(a.max_sale) ]

\* the text parameters the store cannot read as a date
BadDateParams(q) ==
    { k \in DOMAIN q.text.where :
        /\ q.text.where[k].col = "s.date"
        /\ ~IsDateText(q.params[q.text.where[k].ph].text) }

\* every result.rows the store may answer the query with
ResultRows(q) ==
    { [i \in DOMAIN o |-> ResultRow(q.text, o[i])] :
        o \in Orderings(Grouped(q.text, q.params), q.text.orderBy) }

----------------------------------------------------------------------------
(* services/salesService.js: formatTimeSeriesData *)

\* avg_revenue read with parseInt like the other four
Metrics_AvgParsedAsInt(row) ==
    [ saleCount    |-> ParseInt(row.sale_count),
      totalRevenue |-> ParseInt(row.total_revenue),
      avgRevenue   |-> [ParseInt(row.avg_revenue) EXCEPT !.n = 100 * @],
      minSale      |-> ParseInt(row.min_sale),
      maxSale      |-> ParseInt(row.max_sale) ]

Metrics(row) ==
    [ saleCount    |-> ParseInt(row.sale_count),
      totalRevenue |-> ParseInt(row.total_revenue),
      avgRevenue   |-> ParseFloat100(row.avg_revenue),
      minSale      |-> ParseInt(row.min_sale),
      maxSale      |-> ParseInt(row.max_sale) ]

\* a bucket that carries the dimension keys of both shapes
FormatRow_BothKeySets(row, groupBy) ==
    [ timeWindow |-> row.time_window,
      userId     |-> IF groupBy = "user" THEN row.user_id ELSE Undefined,
      userName   |-> IF groupBy = "user" THEN row.user_name ELSE Undefined,
      userRole   |-> IF groupBy = "user" THEN row.user_role ELSE Undefined,
      groupId    |-> IF groupBy = "user" THEN Undefined ELSE row.group_id,
      groupName  |-> IF groupBy = "user" THEN Undefined ELSE row.group_name,
      metrics    |-> Metrics(row) ]

FormatRow(row, groupBy) ==
    IF groupBy = "user"
    THEN [ timeWindow |-> row.time_window,
           userId     |-> row.user_id,
           userName   |-> row.user_name,
           userRole   |-> row.user_role,
           metrics    |-> Metrics(row) ]
    ELSE [ timeWindow |-> row.time_window,
           groupId    |-> row.group_id,
           groupName  |-> row.group_name,
           metrics    |-> Metrics(row) ]

\* rows.map(row => ({...})): a TypeError when rows is undefined
formatTimeSeriesData(result, groupBy) ==
    IF result.hasRows
    THEN [ state |-> "returned",
           data  |-> [i \in DOMAIN result.rows |-> FormatRow(result.rows[i], groupBy)] ]
    ELSE [ state   |-> "threw",
           message |-> <<"Cannot read properties of undefined (reading 'map')">> ]

NotFormatted == [state |-> "none"]

----------------------------------------------------------------------------
(* services/db.js: getClient *)

\* `client` is 0 for null, else the number of the Client constructed
\* a getClient that constructs and connects a Client on every call
getClient_NewEachCall ==
    /\ constructed' = constructed + 1
    /\ client' = constructed + 1
    /\ connects' = connects + 1
    /\ returned' = returned \cup {constructed + 1}

getClient ==
    IF client = 0
    THEN /\ constructed' = constructed + 1
         /\ client' = constructed + 1
         /\ connects' = connects + 1
         /\ returned' = returned \cup {constructed + 1}
    ELSE /\ returned' = returned \cup {client}
         /\ UNCHANGED <<client, constructed, connects>>

----------------------------------------------------------------------------
(* services/salesService.js: getTimeSeriesSales *)

\* the synchronous part, up to `await client.query(query, params)`: the Error
\* thrown, or the query handed to the client
getTimeSeriesSales(options) ==
    LET granularity == Default(options.granularity, "month")
        groupBy     == Default(options.groupBy, "user")
        v           == ServiceValidation(granularity, groupBy)
    IN  IF v # <<"ok">>
        THEN [threw |-> TRUE, message |-> v]
        ELSE [threw |-> FALSE,
              query |-> BuildQuery(granularity.v, groupBy.v, options.startDate,
                                   options.endDate, options.userId, options.groupId)]

NotCalled == [state |-> "none"]

Pending == [state |-> "pending"]

Rejected(m) == [state |-> "rejected", message |-> m]

\* `return result.rows`
Resolved(result) == [state |-> "resolved", hasRows |-> result.hasRows, rows |-> result.rows]

----------------------------------------------------------------------------
(* routes/salesRoutes.js: router.get('/timeseries') *)

NoRequest == [t |-> "none"]

Response(status, body) == [status |-> status, body |-> body]

\* the handler's validation with the two checks in the other order
HandlerValidation_GroupByFirst(granularity, groupBy) ==
    IF groupBy.v \notin VALID_GROUP_BY
    THEN "Invalid groupBy. Must be one of: user, group"
    ELSE IF granularity.v \notin VALID_GRANULARITIES
    THEN "Invalid granularity. Must be one of: day, week, month"
    ELSE "ok"

\* the validation at the head of the handler: "ok" or the 400 error text
HandlerValidation(granularity, groupBy) ==
    IF granularity.v \notin VALID_GRANULARITIES
    THEN "Invalid granularity. Must be one of: day, week, month"
    ELSE IF groupBy.v \notin VALID_GROUP_BY
    THEN "Invalid groupBy. Must be one of: user, group"
    ELSE "ok"

\* the handler's options with the filters normalised as the envelope's are
HandlerOptions_Normalised(q) ==
    [ granularity |-> Default(q.granularity, "month"),
      startDate   |-> OrNull(q.startDate),
      endDate     |-> OrNull(q.endDate),
      groupBy     |-> Default(q.groupBy, "user"),
      userId      |-> OrNullChars(q.userId),
      groupId     |-> OrNullChars(q.groupId) ]

\* the options object the handler passes to salesService.getTimeSeriesSales
HandlerOptions(q) ==
    [ granularity |-> Default(q.granularity, "month"),
      startDate   |-> q.startDate,
      endDate     |-> q.endDate,
      groupBy     |-> Default(q.groupBy, "user"),
      userId      |-> q.userId,
      groupId     |-> q.groupId ]

\* the echoed filters without the `|| null`
HandlerFilters_Raw(q) ==
    [ startDate |-> q.startDate,
      endDate   |-> q.endDate,
      userId    |-> q.userId,
      groupId   |-> q.groupId ]

\* the echoed filters of the success envelope
HandlerFilters(q) ==
    [ startDate |-> OrNull(q.startDate),
      endDate   |-> OrNull(q.endDate),
      userId    |-> OrNullChars(q.userId),
      groupId   |-> OrNullChars(q.groupId) ]

\* a catch block that hides the underlying message
ErrorResponse_Redacted(message) ==
    Response(500, [error |-> "Internal server error", message |-> <<"Something went wrong">>])

\* a catch block that answers without setting the status
ErrorResponse_DefaultStatus(message) ==
    Response(200, [error |-> "Internal server error", message |-> message])

\* the catch block
ErrorResponse(message) ==
    Response(500, [error |-> "Internal server error", message |-> message])

\* what the handler does once the awaited service call resolved
SuccessPath(q, result) ==
    LET groupBy == Default(q.groupBy, "user").v
        f       == formatTimeSeriesData(result, groupBy)
    IN  [ formatted |-> f,
          response  |-> IF f.state = "threw" THEN ErrorResponse(f.message)
                        ELSE Response(200,
                                [ granularity |-> Default(q.granularity, "month").v,
                                  groupBy     |-> groupBy,
                                  filters     |-> HandlerFilters(q),
                                  data        |-> f.data ]) ]

----------------------------------------------------------------------------
(* The inputs explored *)

GranularityValues ==
    { Undefined, Str("day"), Str("week"), Str("month"), Str(""), Str("Month"),
      Str("day'); DROP TABLE sales; --") }

GroupByValues ==
    { Undefined, Str("user"), Str("group"), Str(""),
      Str("user'; DELETE FROM users; --") }

DateValues ==
    { Undefined, Str(""), Str("2021-06-01"), Str("2021-06-06"), Str("not-a-date") }

IdAlphabet == {"0", "1", "2", "a", "x", ",", " ", "-"}

\* every string over IdAlphabet of at most MaxIdLen characters
IdStrings == UNION { [1..n -> IdAlphabet] : n \in 0..MaxIdLen }

WithFilters(g, b, sd, ed, u, gi) ==
    [granularity |-> g, groupBy |-> b, startDate |-> sd, endDate |-> ed,
     userId |-> u, groupId |-> gi]

\* req.query of the HTTP requests explored
HttpQueries ==
    { WithFilters(g, b, Undefined, Undefined, Undefined, Undefined) :
        g \in GranularityValues, b \in GroupByValues }
    \cup
    { WithFilters(g, b, Str("2021-06-01"), Str(""), Str(<<"1", ",", "a">>), Str(<<"2">>)) :
        g \in {Str("week"), Str("hour")}, b \in {Str("group"), Str("team")} }
    \cup
    { WithFilters(Undefined, b, sd, ed, u, gi) :
        b \in {Undefined, Str("group")},
        sd \in DateValues,
        ed \in {Undefined, Str(""), Str("2021-06-06")},
        u \in {Undefined, Str(<<>>), Str(<<"1">>), Str(<<"a">>)},
        gi \in {Undefined, Str(<<>>), Str(<<"2">>)} }

\* the options of the direct getTimeSeriesSales calls explored against every
\* store content
ServiceOptions ==
    { WithFilters(g, b, sd, ed, u, gi) :
        g \in {Str("day"), Str("week"), Str("month")},
        b \in {Str("user"), Str("group")},
        sd \in {Undefined, Str("2021-06-06")},
        ed \in {Undefined, Str("2021-06-06")},
        u \in {Undefined, Str(<<"1">>)},
        gi \in {Undefined, Str(<<"2">>)} }
    \cup
    { WithFilters(Str("day'); DROP TABLE sales; --"), Str("user"),
                  Undefined, Undefined, Undefined, Undefined),
      WithFilters(Str("month"), Str("user'; DELETE FROM users; --"),
                  Undefined, Undefined, Undefined, Undefined),
      WithFilters(Str("hour"), Str("team"),
                  Str("2021-06-01"), Undefined, Str(<<"1">>), Undefined) }

\* the options of the direct calls that explore the id lists: a userId list
\* with the default groupBy, a groupId list with groupBy=group, and the calls
\* without a list
IdListOptions ==
    { WithFilters(Undefined, Undefined, Undefined, Undefined, Str(s), Undefined) :
        s \in IdStrings }
    \cup
    { WithFilters(Undefined, Str("group"), Undefined, Undefined, Undefined, Str(s)) :
        s \in IdStrings }
    \cup
    { WithFilters(Undefined, b, Undefined, Undefined, Undefined, Undefined) :
        b \in {Undefined, Str("user"), Str("group")} }

\* the errors the store may fail any query with
StoreFaults == { <<"Database connection failed">> }

\* a store content with a sale of each user
SampleSales ==
    << [user_id |-> 1, amount |-> 100, date |-> At(151, 0)],
       [user_id |-> 2, amount |-> 300, date |-> At(156, 1)] >>

----------------------------------------------------------------------------
(* The state machine *)

InitProcess ==
    /\ client = 0
    /\ constructed = 0
    /\ connects = 0
    /\ returned = {}
    /\ held = 0
    /\ pc = "idle"
    /\ entry = "none"
    /\ req = NoRequest
    /\ svcCalls = <<>>
    /\ queries = <<>>
    /\ settled = NotCalled
    /\ formatted = NotFormatted
    /\ responses = <<>>

\* the HTTP server over a store with at most one sale, or the sample
Init ==
    /\ sales \in { f \in SalesContents : Len(f) <= 1 } \cup { SampleSales }
    /\ user_groups \in MembershipContents
    /\ InitProcess

\* the service over every store content
InitService ==
    /\ sales \in SalesContents
    /\ user_groups \in MembershipContents
    /\ InitProcess

\* the service over the sample store
InitIdLists ==
    /\ sales = SampleSales
    /\ user_groups \in MembershipContents
    /\ InitProcess

\* the call of salesService.getTimeSeriesSales(options), up to its await
StartService(options) ==
    LET r == getTimeSeriesSales(options)
    IN  /\ svcCalls' = <<options>>
        /\ formatted' = NotFormatted
        /\ IF r.threw
           THEN /\ settled' = Rejected(r.message)
                /\ queries' = <<>>
                /\ UNCHANGED <<client, constructed, connects, returned>>
           ELSE /\ getClient
                /\ queries' = <<r.query>>
                /\ settled' = Pending

\* GET /api/sales/timeseries arrives: the handler runs to its first await,
\* or to the response it returns before
Receive(q) ==
    /\ pc = "idle"
    /\ entry' = "http"
    /\ req' = q
    /\ LET v == HandlerValidation(Default(q.granularity, "month"),
                                  Default(q.groupBy, "user"))
       IN  IF v # "ok"
           THEN /\ responses' = << Response(400, [error |-> v]) >>
                /\ pc' = "done"
                /\ svcCalls' = <<>>
                /\ queries' = <<>>
                /\ settled' = NotCalled
                /\ formatted' = NotFormatted
                /\ UNCHANGED <<client, constructed, connects, returned>>
           ELSE /\ StartService(HandlerOptions(q))
                /\ IF getTimeSeriesSales(HandlerOptions(q)).threw
                   THEN /\ responses' =
                              << ErrorResponse(getTimeSeriesSales(HandlerOptions(q)).message) >>
                        /\ pc' = "done"
                   ELSE /\ responses' = <<>>
                        /\ pc' = "awaiting"
    /\ UNCHANGED <<sales, user_groups, held>>

\* a test or another module calls getTimeSeriesSales(options) itself
DirectCall(options) ==
    /\ pc = "idle"
    /\ entry' = "direct"
    /\ req' = NoRequest
    /\ responses' = <<>>
    /\ StartService(options)
    /\ pc' = IF getTimeSeriesSales(options).threw THEN "done" ELSE "awaiting"
    /\ UNCHANGED <<sales, user_groups, held>>

\* the continuation of the awaiting caller once the service call settled
Continue(result) ==
    /\ pc' = "done"
    /\ settled' = Resolved(result)
    /\ IF entry = "http"
       THEN /\ formatted' = SuccessPath(req, result).formatted
            /\ responses' = Append(responses, SuccessPath(req, result).response)
       ELSE UNCHANGED <<formatted, responses>>
    /\ UNCHANGED <<sales, user_groups, held, client, constructed, connects, returned, entry,
                   req,
                   svcCalls, queries>>

\* client.query resolves with the rows of the query
QueryResolves ==
    /\ pc = "awaiting"
    /\ BadDateParams(queries[Len(queries)]) = {}
    /\ \E rows \in ResultRows(queries[Len(queries)]) :
           Continue([hasRows |-> TRUE, rows |-> rows])

\* client.query resolves with a result that carries no rows array
QueryResolvesWithoutRows ==
    /\ pc = "awaiting"
    /\ Continue([hasRows |-> FALSE, rows |-> <<>>])

\* client.query rejects: a store fault, or a date parameter it cannot read
QueryRejects ==
    /\ pc = "awaiting"
    /\ \E m \in StoreFaults \cup
               { <<"invalid input syntax for type timestamp: ",
                   queries[Len(queries)].params[queries[Len(queries)].text.where[k].ph].text>> :
                 k \in BadDateParams(queries[Len(queries)]) } :
           /\ settled' = Rejected(m)
           /\ responses' = IF entry = "http" THEN Append(responses, ErrorResponse(m))
                           ELSE responses
    /\ pc' = "done"
    /\ UNCHANGED <<sales, user_groups, held, client, constructed, connects, returned, entry,
                   req,
                   svcCalls, queries, formatted>>

\* a direct caller formats the rows it got: formatTimeSeriesData(rows, groupBy)
FormatRows ==
    /\ pc = "done"
    /\ entry = "direct"
    /\ settled.state = "resolved"
    /\ formatted = NotFormatted
    /\ formatted' = formatTimeSeriesData(settled, Default(svcCalls[1].groupBy, "user").v)
    /\ UNCHANGED <<sales, user_groups, held, client, constructed, connects, returned, pc,
                   entry, req,
                   svcCalls, queries, settled, responses>>

\* the request is over: its locals are gone, the module state of db.js stays
Finish ==
    /\ pc = "done"
    /\ pc' = "idle"
    /\ entry' = "none"
    /\ req' = NoRequest
    /\ svcCalls' = <<>>
    /\ queries' = <<>>
    /\ settled' = NotCalled
    /\ formatted' = NotFormatted
    /\ responses' = <<>>
    /\ UNCHANGED <<sales, user_groups, held, client, constructed, connects, returned>>

Next ==
    \/ pc = "idle" /\ \E q \in HttpQueries : Receive(q)
    \/ QueryResolves
    \/ QueryResolvesWithoutRows
    \/ QueryRejects
    \/ Finish

NextService ==
    \/ pc = "idle" /\ \E o \in ServiceOptions : DirectCall(o)
    \/ QueryResolves
    \/ QueryResolvesWithoutRows
    \/ QueryRejects
    \/ FormatRows
    \/ Finish

NextIdLists ==
    \/ pc = "idle" /\ \E o \in IdListOptions : DirectCall(o)
    \/ QueryResolves
    \/ QueryResolvesWithoutRows
    \/ QueryRejects
    \/ FormatRows
    \/ Finish

Spec == Init /\ [][Next]_vars

SpecService == InitService /\ [][NextService]_vars

SpecIdLists == InitIdLists /\ [][NextIdLists]_vars

----------------------------------------------------------------------------
(* Properties of the request handler, checked under Spec *)

\* a query value that is present and outside the enumeration
Outside(x, enum) == x.t = "string" /\ x.v \notin enum

\* the current HTTP request fails the enumeration check
RequestInvalid ==
    /\ entry = "http"
    /\ \/ Outside(req.granularity, VALID_GRANULARITIES)
       \/ Outside(req.groupBy, VALID_GROUP_BY)

RequestValid ==
    /\ entry = "http"
    /\ ~Outside(req.granularity, VALID_GRANULARITIES)
    /\ ~Outside(req.groupBy, VALID_GROUP_BY)

\* C1: a request whose granularity is outside {day, week, month} or whose
\* groupBy is outside {user, group} is answered 400, once, without any call of
\* getTimeSeriesSales and without any query to the store; when the granularity
\* is invalid (also when both are) the error is the granularity one, else it
\* is the groupBy one.
C1_InvalidRejectedBeforeStore ==
    RequestInvalid =>
        /\ Len(responses) = 1
        /\ responses[1].status = 400
        /\ responses[1].body =
             [error |-> IF Outside(req.granularity, VALID_GRANULARITIES)
                        THEN "Invalid granularity. Must be one of: day, week, month"
                        ELSE "Invalid groupBy. Must be one of: user, group"]
        /\ svcCalls = <<>>
        /\ queries = <<>>
        /\ settled = NotCalled

\* a request with both values invalid got the granularity error
C1_Witness ==
    /\ entry = "http"
    /\ Outside(req.granularity, VALID_GRANULARITIES)
    /\ Outside(req.groupBy, VALID_GROUP_BY)
    /\ Len(responses) = 1
    /\ responses[1].status = 400
    /\ responses[1].body.error = "Invalid granularity. Must be one of: day, week, month"

\* C3: for a request that passes validation the handler calls
\* getTimeSeriesSales exactly once, with granularity (month when absent),
\* groupBy (user when absent) and the four filters exactly as they came in
\* the query string (undefined when absent).
C3_OptionsPassedThrough ==
    RequestValid =>
        svcCalls =
          << [ granularity |-> IF IsUndefined(req.granularity) THEN Str("month")
                               ELSE req.granularity,
               groupBy     |-> IF IsUndefined(req.groupBy) THEN Str("user")
                               ELSE req.groupBy,
               startDate   |-> req.startDate,
               endDate     |-> req.endDate,
               userId      |-> req.userId,
               groupId     |-> req.groupId ] >>

\* a defaulted request carrying an empty startDate and an unparsable userId
\* reached the service with both untouched
C3_Witness ==
    /\ RequestValid
    /\ IsUndefined(req.granularity)
    /\ req.startDate = Str("")
    /\ req.userId = Str(<<"a">>)
    /\ IsUndefined(req.groupId)
    /\ Len(svcCalls) = 1
    /\ svcCalls[1].granularity = Str("month")
    /\ svcCalls[1].startDate = Str("")
    /\ svcCalls[1].userId = Str(<<"a">>)
    /\ svcCalls[1].groupId = Undefined

\* the service call of the current HTTP request resolved with rows
RequestSucceeded ==
    /\ RequestValid
    /\ pc = "done"
    /\ settled.state = "resolved"
    /\ settled.hasRows

EffectiveGroupBy == IF IsUndefined(req.groupBy) THEN "user" ELSE req.groupBy.v

EffectiveGranularity == IF IsUndefined(req.granularity) THEN "month" ELSE req.granularity.v

\* the success envelope but for its filters
SuccessEnvelope ==
    /\ Len(responses) = 1
    /\ responses[1].status = 200
    /\ DOMAIN responses[1].body = {"granularity", "groupBy", "filters", "data"}
    /\ responses[1].body.granularity = EffectiveGranularity
    /\ responses[1].body.groupBy = EffectiveGroupBy
    /\ DOMAIN responses[1].body.filters = {"startDate", "endDate", "userId", "groupId"}
    /\ responses[1].body.data =
         [i \in DOMAIN settled.rows |-> FormatRow(settled.rows[i], EffectiveGroupBy)]

\* C4 as stated: on success the response is 200 and each filter of the
\* envelope is the raw string supplied, or null when the filter is absent.
C4_FiltersRawOrNullWhenAbsent ==
    RequestSucceeded =>
        /\ SuccessEnvelope
        /\ \A f \in {"startDate", "endDate", "userId", "groupId"} :
               responses[1].body.filters[f] =
                   IF IsUndefined(req[f]) THEN Null ELSE req[f]

\* C4 (amended): on success the response is 200 with the effective
\* granularity and groupBy, data the formatted rows the service returned, and
\* each filter the raw string supplied, or null when the filter is absent or
\* is the empty string.
C4_SuccessEnvelope ==
    RequestSucceeded =>
        /\ SuccessEnvelope
        /\ \A f \in {"startDate", "endDate"} :
               responses[1].body.filters[f] =
                   IF IsUndefined(req[f]) \/ req[f].v = "" THEN Null ELSE req[f]
        /\ \A f \in {"userId", "groupId"} :
               responses[1].body.filters[f] =
                   IF IsUndefined(req[f]) \/ Len(req[f].v) = 0 THEN Null ELSE req[f]

\* a defaulted request with a start date, an empty end date and no id filter
\* was answered 200 with data
C4_Witness ==
    /\ RequestSucceeded
    /\ IsUndefined(req.granularity)
    /\ req.startDate = Str("2021-06-01")
    /\ req.endDate = Str("")
    /\ IsUndefined(req.userId)
    /\ Len(responses) = 1
    /\ responses[1].status = 200
    /\ responses[1].body.granularity = "month"
    /\ responses[1].body.filters.startDate = Str("2021-06-01")
    /\ responses[1].body.filters.endDate = Null
    /\ responses[1].body.filters.userId = Null
    /\ Len(responses[1].body.data) > 0

\* the message of the failure the current request met after validation
FailureMessage ==
    IF settled.state = "rejected" THEN settled.message ELSE formatted.message

RequestFailed ==
    /\ RequestValid
    /\ pc = "done"
    /\ \/ settled.state = "rejected"
       \/ formatted.state = "threw"

\* C5: a failure after validation (the store query rejected, or an exception
\* while formatting) is answered 500, once, with exactly
\* { error: 'Internal server error', message: <the underlying message> }, so
\* with no data; and no request queries the store more than once.
C5_FailureIs500 ==
    /\ entry = "http" => Len(queries) <= 1 /\ Len(svcCalls) <= 1
    /\ RequestFailed =>
           /\ Len(responses) = 1
           /\ responses[1].status = 500
           /\ responses[1].body =
                [error |-> "Internal server error", message |-> FailureMessage]

\* the store rejected a query over an unreadable date and the request was
\* answered 500 with the store's message
C5_Witness ==
    /\ RequestFailed
    /\ settled.state = "rejected"
    /\ settled.message = <<"invalid input syntax for type timestamp: ", "not-a-date">>
    /\ Len(queries) = 1
    /\ Len(responses) = 1
    /\ responses[1].status = 500
    /\ responses[1].body.message = settled.message

----------------------------------------------------------------------------
(* Properties of getTimeSeriesSales called directly, checked under            *)
(* SpecService (every store content) and SpecIdLists (every id list)          *)

\* the options of the current direct call
DirectOptions == svcCalls[1]

DirectGroupBy ==
    IF IsUndefined(DirectOptions.groupBy) THEN "user" ELSE DirectOptions.groupBy.v

DirectInvalid ==
    /\ entry = "direct"
    /\ \/ Outside(DirectOptions.granularity, VALID_GRANULARITIES)
       \/ Outside(DirectOptions.groupBy, VALID_GROUP_BY)

\* the current direct call got rows back
DirectResolved ==
    /\ entry = "direct"
    /\ settled.state = "resolved"
    /\ settled.hasRows

\* C2: getTimeSeriesSales called with a granularity outside {day, week, month}
\* or a groupBy outside {user, group} rejects with the validation error for
\* that value (granularity first) and hands no query to client.query; and
\* every query handed to the store truncates by one of day, week, month.
C2_ServiceRejectsInvalid ==
    /\ DirectInvalid =>
           /\ settled.state = "rejected"
           /\ settled.message =
                IF Outside(DirectOptions.granularity, VALID_GRANULARITIES)
                THEN <<"Invalid granularity: ", DirectOptions.granularity.v,
                       ". Must be one of: day, week, month">>
                ELSE <<"Invalid groupBy: ", DirectOptions.groupBy.v,
                       ". Must be one of: user, group">>
           /\ queries = <<>>
    /\ \A i \in DOMAIN queries : queries[i].text.trunc \in VALID_GRANULARITIES

\* a direct call with an injected groupBy was rejected without a query
C2_Witness ==
    /\ entry = "direct"
    /\ DirectOptions.granularity = Str("month")
    /\ DirectOptions.groupBy = Str("user'; DELETE FROM users; --")
    /\ settled.state = "rejected"
    /\ settled.message[1] = "Invalid groupBy: "
    /\ queries = <<>>

\* the number a numeral of the result stands for
NumeralValue(chars) == DigitsValue(chars, 0)

\* rows i and j of a sequence are in the presentation order: later window
\* first, and the larger total first within a window
InOrder(twi, totali, twj, totalj) ==
    \/ twi > twj
    \/ twi = twj /\ totali >= totalj

\* C6: the rows returned are ordered by time window descending and, within a
\* time window, by total revenue descending; formatting them keeps their
\* number and their order.
C6_OrderedByWindowThenRevenue ==
    DirectResolved =>
        /\ \A i, j \in DOMAIN settled.rows :
               i < j => InOrder(settled.rows[i].time_window,
                                NumeralValue(settled.rows[i].total_revenue),
                                settled.rows[j].time_window,
                                NumeralValue(settled.rows[j].total_revenue))
        /\ formatted.state = "returned" =>
               /\ Len(formatted.data) = Len(settled.rows)
               /\ \A i \in DOMAIN settled.rows :
                      /\ formatted.data[i].timeWindow = settled.rows[i].time_window
                      /\ formatted.data[i].metrics.totalRevenue =
                             Num(NumeralValue(settled.rows[i].total_revenue))
               /\ \A i, j \in DOMAIN formatted.data :
                      i < j => InOrder(formatted.data[i].timeWindow,
                                       formatted.data[i].metrics.totalRevenue.n,
                                       formatted.data[j].timeWindow,
                                       formatted.data[j].metrics.totalRevenue.n)

\* formatted rows with a change of window and, within one window, two buckets
\* of different revenue
C6_Witness ==
    /\ DirectResolved
    /\ formatted.state = "returned"
    /\ Len(formatted.data) >= 2
    /\ \E i, j \in DOMAIN formatted.data :
           /\ i < j
           /\ formatted.data[i].timeWindow = formatted.data[j].timeWindow
           /\ formatted.data[i].metrics.totalRevenue.n >
                  formatted.data[j].metrics.totalRevenue.n

\* the dimension id of a result row / of a formatted bucket
RowDimension(row) == IF DirectGroupBy = "user" THEN row.user_id ELSE row.group_id

BucketDimension(bucket) == IF DirectGroupBy = "user" THEN bucket.userId ELSE bucket.groupId

\* C7: no two buckets of the output share both the time window and the
\* dimension id (user id when groupBy=user, group id when groupBy=group).
C7_BucketsUniquelyKeyed ==
    DirectResolved =>
        /\ \A i, j \in DOMAIN settled.rows :
               i # j => \/ settled.rows[i].time_window # settled.rows[j].time_window
                        \/ RowDimension(settled.rows[i]) # RowDimension(settled.rows[j])
        /\ formatted.state = "returned" =>
               \A i, j \in DOMAIN formatted.data :
                   i # j => \/ formatted.data[i].timeWindow # formatted.data[j].timeWindow
                            \/ BucketDimension(formatted.data[i]) #
                                   BucketDimension(formatted.data[j])

\* two sales of one window and one dimension made one bucket, beside another
C7_Witness ==
    /\ DirectResolved
    /\ formatted.state = "returned"
    /\ Len(formatted.data) >= 2
    /\ \E i \in DOMAIN formatted.data : formatted.data[i].metrics.saleCount = Num(2)

----------------------------------------------------------------------------
(* The id lists, read independently of the code's parsing *)

\* the position of the first non-blank character of tok, Len(tok) + 1 if none
FirstNonBlank(tok) ==
    IF \A k \in 1..Len(tok) : tok[k] \in WhiteSpace THEN Len(tok) + 1
    ELSE CHOOSE k \in 1..Len(tok) :
             /\ tok[k] \notin WhiteSpace
             /\ \A m \in 1..(k - 1) : tok[m] \in WhiteSpace

LastNonBlank(tok) ==
    IF \A k \in 1..Len(tok) : tok[k] \in WhiteSpace THEN 0
    ELSE CHOOSE k \in 1..Len(tok) :
             /\ tok[k] \notin WhiteSpace
             /\ \A m \in (k + 1)..Len(tok) : tok[m] \in WhiteSpace

\* where the numeral of tok would start: after the blanks and one sign
NumeralStart(tok) ==
    LET f == FirstNonBlank(tok)
    IN  IF f <= Len(tok) /\ tok[f] \in {"-", "+"} THEN f + 1 ELSE f

\* the numeral of tok is hexadecimal: it starts with 0x or 0X
IsHex(tok) ==
    LET a == NumeralStart(tok)
    IN  a + 1 <= Len(tok) /\ tok[a] = "0" /\ tok[a + 1] \in {"x", "X"}

Base(tok) == IF IsHex(tok) THEN 16 ELSE 10

\* where the digits of tok would start: after the 0x of a hexadecimal numeral
DigitsStart(tok) == IF IsHex(tok) THEN NumeralStart(tok) + 2 ELSE NumeralStart(tok)

\* the last position of the run of digits that starts at DigitsStart(tok);
\* DigitsStart(tok) - 1 when there is no digit there
DigitsEnd(tok) ==
    LET a == DigitsStart(tok)
    IN  CHOOSE e \in (a - 1)..Len(tok) :
            /\ \A k \in a..e : tok[k] \in DigitsOf(Base(tok))
            /\ (e = Len(tok) \/ tok[e + 1] \notin DigitsOf(Base(tok)))

RECURSIVE Power(_, _)
Power(b, n) == IF n = 0 THEN 1 ELSE b * Power(b, n - 1)

RECURSIVE PlaceSum(_, _, _)
PlaceSum(tok, k, e) ==
    IF k > e THEN 0
    ELSE DigitVal(tok[k]) * Power(Base(tok), e - k) + PlaceSum(tok, k + 1, e)

\* tok starts, after blanks, with an optional sign and an integer numeral:
\* at least one decimal digit, or 0x and at least one hexadecimal digit
HasIntegerPrefix(tok) == DigitsEnd(tok) >= DigitsStart(tok)

\* tok is, but for surrounding blanks, an optional sign and decimal digits
IsIntegerToken(tok) ==
    /\ ~IsHex(tok)
    /\ HasIntegerPrefix(tok)
    /\ DigitsEnd(tok) = LastNonBlank(tok)

\* the integer tok starts with
PrefixValue(tok) ==
    LET f   == FirstNonBlank(tok)
        mag == PlaceSum(tok, DigitsStart(tok), DigitsEnd(tok))
    IN  IF tok[f] = "-" THEN 0 - mag ELSE mag

\* the pieces of s between its commas: piece k lies between the (k-1)-th and
\* the k-th comma
CommaPositions(s) == { k \in 1..Len(s) : s[k] = "," }

Piece(s, lo, hi) == SubSeq(s, lo + 1, hi - 1)

Pieces(s) ==
    LET cuts == {0, Len(s) + 1} \cup CommaPositions(s)
    IN  { <<lo, Piece(s, lo, hi)>> :
            <<lo, hi>> \in { c \in cuts \X cuts :
                               /\ c[1] < c[2]
                               /\ \A m \in cuts : ~(c[1] < m /\ m < c[2]) } }

\* the values of the pieces that satisfy Keep, in the order of the pieces
RECURSIVE ValuesInOrder(_)
ValuesInOrder(ps) ==
    IF ps = {} THEN <<>>
    ELSE LET first == CHOOSE x \in ps : \A y \in ps : x[1] <= y[1]
         IN  <<PrefixValue(first[2])>> \o ValuesInOrder(ps \ {first})

\* what the list s binds when pieces that start with an integer are kept
PrefixValues(s) == ValuesInOrder({ x \in Pieces(s) : HasIntegerPrefix(x[2]) })

\* what the list s binds when only pieces that are integers are kept
IntegerTokenValues(s) == ValuesInOrder({ x \in Pieces(s) : IsIntegerToken(x[2]) })

\* the comma-separated list that writes the integers ids and nothing else
RECURSIVE ListOf(_)
ListOf(ids) ==
    IF Len(ids) = 1 THEN IntToChars(ids[1])
    ELSE IntToChars(ids[1]) \o <<",">> \o ListOf(Tail(ids))

\* the id array the query binds for column col, empty when there is none
BoundIds(q, col) ==
    IF \E k \in DOMAIN q.text.where : q.text.where[k].col = col
    THEN q.params[(CHOOSE k \in DOMAIN q.text.where : q.text.where[k].col = col)].ints
    ELSE <<>>

IdPreds(q, col) == { k \in DOMAIN q.text.where : q.text.where[k].col = col }

\* the id filters with the groupBy each applies to and the column each tests
IdFilters == { <<"userId", "user", "u.id">>, <<"groupId", "group", "g.id">> }

\* the current direct call built a query and carries a non-empty list in the
\* id filter f[1], which applies to its groupBy
IdFilterApplies(f) ==
    /\ entry = "direct"
    /\ Len(queries) = 1
    /\ DirectGroupBy = f[2]
    /\ TruthyChars(DirectOptions[f[1]])

\* the query the service builds for options o
QueryOf(o) == getTimeSeriesSales(o).query

\* C8 as stated: the bound id array holds only the tokens that are integers,
\* every other token being dropped.
C8_OnlyIntegerTokensBound ==
    \A f \in IdFilters :
        IdFilterApplies(f) =>
            BoundIds(queries[1], f[3]) = IntegerTokenValues(DirectOptions[f[1]].v)

\* C8 (amended): a token of a userId or groupId list is dropped when, after
\* its leading blanks, it does not start with an optional sign and an integer
\* numeral (decimal digits, or 0x and hexadecimal digits); every other token
\* is bound as the integer it starts with, whatever follows the digits; the
\* array is bound in the order of the list, through one
\* predicate, and the query and parameters are those of the list that writes
\* just these integers (1,a,2 builds what 1,2 builds).
C8_IdListParsed ==
    \A f \in IdFilters :
        IdFilterApplies(f) =>
            /\ BoundIds(queries[1], f[3]) = PrefixValues(DirectOptions[f[1]].v)
            /\ Cardinality(IdPreds(queries[1], f[3])) =
                   IF PrefixValues(DirectOptions[f[1]].v) = <<>> THEN 0 ELSE 1
            /\ PrefixValues(DirectOptions[f[1]].v) # <<>> =>
                   QueryOf([DirectOptions EXCEPT
                              ![f[1]] = Str(ListOf(PrefixValues(DirectOptions[f[1]].v)))])
                       = queries[1]

\* the list a,2 bound the array [2]
C8_Witness ==
    /\ IdFilterApplies(<<"userId", "user", "u.id">>)
    /\ DirectOptions.userId = Str(<<"a", ",", "2">>)
    /\ queries[1].params = << IntArrayParam(<<2>>) >>
    /\ queries[1].text.where = << Pred("u.id", "= ANY", 1) >>

\* C9: when the userId (resp. groupId) list is non-empty but no token of it
\* parses to an integer, the query gets no id predicate and no id parameter:
\* it is the query of the same call without the filter, and the rows returned
\* are rows of that query, not an empty result.
C9_EmptyAfterParseIsUnfiltered ==
    \A f \in IdFilters :
        IdFilterApplies(f) /\ PrefixValues(DirectOptions[f[1]].v) = <<>> =>
            /\ IdPreds(queries[1], f[3]) = {}
            /\ Len(queries[1].params) = Len(queries[1].text.where)
            /\ queries[1] = QueryOf([DirectOptions EXCEPT ![f[1]] = Undefined])
            /\ DirectResolved =>
                   /\ settled.rows \in
                          ResultRows(QueryOf([DirectOptions EXCEPT ![f[1]] = Undefined]))
                   /\ { RowDimension(settled.rows[i]) : i \in DOMAIN settled.rows } =
                          { ColValue(f[3], r, "month") : r \in FromRows(queries[1].text) }

\* the list a,- filtered nothing: both users are in the rows
C9_Witness ==
    /\ IdFilterApplies(<<"userId", "user", "u.id">>)
    /\ DirectOptions.userId = Str(<<"a", ",", "-">>)
    /\ DirectResolved
    /\ queries[1].params = <<>>
    /\ { settled.rows[i].user_id : i \in DOMAIN settled.rows } = {1, 2}


\* the current direct call built a query and carries a non-empty list in the
\* id filter f[1], which does not apply to its groupBy
IdFilterForeign(f) ==
    /\ entry = "direct"
    /\ Len(queries) = 1
    /\ DirectGroupBy # f[2]
    /\ TruthyChars(DirectOptions[f[1]])

\* C10: a userId supplied with groupBy=group, or a groupId supplied with
\* groupBy=user, adds no predicate and no bound parameter: the query is the one
\* of the same call without it, and so are the rows; a userId with
\* groupBy=user, or a groupId with groupBy=group, that holds an integer adds
\* one predicate, and every row returned is of a listed id.
C10_IdFilterOnlyForItsGroupBy ==
    \A f \in IdFilters :
        /\ IdFilterForeign(f) =>
               /\ IdPreds(queries[1], f[3]) = {}
               /\ Len(queries[1].params) = Len(queries[1].text.where)
               /\ queries[1] = QueryOf([DirectOptions EXCEPT ![f[1]] = Undefined])
               /\ DirectResolved =>
                      settled.rows \in
                          ResultRows(QueryOf([DirectOptions EXCEPT ![f[1]] = Undefined]))
        /\ IdFilterApplies(f) /\ PrefixValues(DirectOptions[f[1]].v) # <<>> =>
               /\ Cardinality(IdPreds(queries[1], f[3])) = 1
               /\ DirectResolved =>
                      \A i \in DOMAIN settled.rows :
                          RowDimension(settled.rows[i]) \in
                              Range(PrefixValues(DirectOptions[f[1]].v))

\* grouped by group with userId=1 on top of a date filter: the only parameter
\* is the date, and a bucket of two sales came back
C10_Witness ==
    /\ IdFilterForeign(<<"userId", "user", "u.id">>)
    /\ DirectOptions.userId = Str(<<"1">>)
    /\ IsUndefined(DirectOptions.groupId)
    /\ DirectResolved
    /\ Len(queries[1].params) = 1
    /\ queries[1].params[1] = TextParam("2021-06-06")
    /\ \E i \in DOMAIN settled.rows : settled.rows[i].sale_count = <<"2">>

----------------------------------------------------------------------------
(* The date range, checked under SpecService *)

\* the calendar day a YYYY-MM-DD text names
DayOfText(s) == (CHOOSE d \in DateTable : d.text = s).day

\* the sale s lies within [startDate, endDate] of the current direct call, the
\* end bound reaching through the end of the endDate calendar day
WithinDateRange(s) ==
    /\ Truthy(DirectOptions.startDate) =>
           DayOf(s.date) >= DayOfText(DirectOptions.startDate.v)
    /\ Truthy(DirectOptions.endDate) =>
           DayOf(s.date) <= DayOfText(DirectOptions.endDate.v)

\* the dimension ids (user id, or group ids of the memberships) of sale i
DimensionsOf(i) ==
    IF DirectGroupBy = "user"
    THEN { u.id : u \in { x \in Users : x.id = sales[i].user_id } }
    ELSE { m.group_id : m \in { x \in user_groups : x.user_id = sales[i].user_id } }

\* the sales that belong to result row `row`: those of its time window and of
\* its dimension
SalesOfRow(row) ==
    { i \in DOMAIN sales :
        /\ DATE_TRUNC(queries[1].text.trunc, sales[i].date) = row.time_window
        /\ RowDimension(row) \in DimensionsOf(i) }

\* the dimension id d passes the id list the query binds, if it binds one
Listed(d) ==
    LET col == IF DirectGroupBy = "user" THEN "u.id" ELSE "g.id"
    IN  IdPreds(queries[1], col) = {} \/ d \in Range(BoundIds(queries[1], col))

DateFiltered ==
    /\ DirectResolved
    /\ Truthy(DirectOptions.startDate) \/ Truthy(DirectOptions.endDate)

----------------------------------------------------------------------------
(* The metrics of a bucket, checked under SpecMetrics: stores of up to        *)
(* MaxBucketSales sales of one day, of small, large and negative amounts      *)

MetricAmounts == {0 - 2, 1, 2, 100}

MetricSales ==
    UNION { { f \in [1..n -> [user_id : {u.id : u \in Users},
                              amount  : MetricAmounts,
                              date    : {At(151, 0)}]] :
                \A i \in 1..(n - 1) : InsertedInOrder(f[i], f[i + 1]) }
            : n \in 0..MaxBucketSales }

MetricOptions ==
    { WithFilters(Undefined, b, Undefined, Undefined, Undefined, Undefined) :
        b \in {Str("user"), Str("group")} }

InitMetrics ==
    /\ sales \in MetricSales
    /\ user_groups \in MembershipContents
    /\ InitProcess

NextMetrics ==
    \/ pc = "idle" /\ \E o \in MetricOptions : DirectCall(o)
    \/ QueryResolves
    \/ QueryResolvesWithoutRows
    \/ QueryRejects
    \/ FormatRows
    \/ Finish

SpecMetrics == InitMetrics /\ [][NextMetrics]_vars

Abs(n) == IF n < 0 THEN 0 - n ELSE n

\* the five metrics of a bucket are numbers
MetricsAreNumbers(m) ==
    /\ ~m.saleCount.nan
    /\ ~m.totalRevenue.nan
    /\ ~m.avgRevenue.nan
    /\ ~m.minSale.nan
    /\ ~m.maxSale.nan

\* C12: in every bucket returned, saleCount > 0, totalRevenue is
\* saleCount x avgRevenue to within the rounding of the average to two
\* decimals (half a hundredth per sale), and minSale <= avgRevenue <= maxSale.
\* avgRevenue is held in hundredths.
C12_MetricsConsistent ==
    DirectResolved /\ formatted.state = "returned" =>
        \A k \in DOMAIN formatted.data :
            LET m == formatted.data[k].metrics
            IN  /\ MetricsAreNumbers(m)
                /\ m.saleCount.n > 0
                /\ 2 * Abs(m.saleCount.n * m.avgRevenue.n - 100 * m.totalRevenue.n)
                       <= m.saleCount.n
                /\ 100 * m.minSale.n <= m.avgRevenue.n
                /\ m.avgRevenue.n <= 100 * m.maxSale.n

\* a bucket of three sales 1, 2, 2 whose average 1.666... was rounded to 1.67
C12_Witness ==
    /\ DirectResolved
    /\ formatted.state = "returned"
    /\ \E k \in DOMAIN formatted.data :
           formatted.data[k].metrics =
               [ saleCount |-> Num(3), totalRevenue |-> Num(5), avgRevenue |-> Num(167),
                 minSale |-> Num(1), maxSale |-> Num(2) ]

----------------------------------------------------------------------------
(* The fan-out of a sale over the groups of its user, checked under           *)
(* SpecService                                                                *)

\* sale i passes the date predicates of the current direct call, as the query
\* states them
PassesDates(i) ==
    /\ Truthy(DirectOptions.startDate) =>
           sales[i].date >= DayOfText(DirectOptions.startDate.v) * TicksPerDay
    /\ Truthy(DirectOptions.endDate) =>
           sales[i].date <= DayOfText(DirectOptions.endDate.v) * TicksPerDay

\* the groups the owning user of sale i is a member of
GroupsOfSale(i) == { m.group_id : m \in { x \in user_groups : x.user_id = sales[i].user_id } }

\* the rows of the result that count sale i
BucketsOfSale(i) == { k \in DOMAIN settled.rows : i \in SalesOfRow(settled.rows[k]) }

RECURSIVE AmountOver(_)
AmountOver(S) ==
    IF S = {} THEN 0
    ELSE LET i == CHOOSE x \in S : TRUE IN sales[i].amount + AmountOver(S \ {i})

\* C13: with groupBy=group a sale that passes the filters is counted once in
\* the bucket, of its time window, of every group its owning user is a member
\* of (k memberships, k buckets, no deduplication); with groupBy=user it is
\* counted in exactly one bucket.  Every bucket counts, and totals, just the
\* sales that fan out to it.
C13_SaleFansOutToEveryGroup ==
    DirectResolved =>
        /\ \A k \in DOMAIN settled.rows :
               LET counted == { i \in SalesOfRow(settled.rows[k]) : PassesDates(i) }
               IN  /\ NumeralValue(settled.rows[k].sale_count) = Cardinality(counted)
                   /\ NumeralValue(settled.rows[k].total_revenue) = AmountOver(counted)
        /\ \A i \in DOMAIN sales :
               PassesDates(i) =>
                   IF DirectGroupBy = "group"
                   THEN /\ { settled.rows[k].group_id : k \in BucketsOfSale(i) } =
                               { g \in GroupsOfSale(i) : Listed(g) }
                        /\ Cardinality(BucketsOfSale(i)) =
                               Cardinality({ g \in GroupsOfSale(i) : Listed(g) })
                   ELSE Listed(sales[i].user_id) => Cardinality(BucketsOfSale(i)) = 1

\* grouped by group without filters: the one sale of the store, by the user of
\* both groups, is counted in two buckets of the same window
C13_Witness ==
    /\ DirectResolved
    /\ DirectGroupBy = "group"
    /\ Len(queries[1].params) = 0
    /\ Len(sales) = 1
    /\ Cardinality(GroupsOfSale(1)) = 2
    /\ Len(settled.rows) = 2
    /\ settled.rows[1].time_window = settled.rows[2].time_window
    /\ settled.rows[1].sale_count = <<"1">>
    /\ settled.rows[2].sale_count = <<"1">>

----------------------------------------------------------------------------
(* The keys of a bucket, checked under SpecService *)

UserKeys == {"userId", "userName", "userRole"}

GroupKeys == {"groupId", "groupName"}

\* C14: every bucket formatted for groupBy=group has the keys groupId and
\* groupName and none of userId, userName, userRole; every bucket formatted
\* for groupBy=user has userId, userName, userRole and none of groupId,
\* groupName.
C14_BucketKeysFollowGroupBy ==
    DirectResolved /\ formatted.state = "returned" =>
        \A k \in DOMAIN formatted.data :
            IF DirectGroupBy = "group"
            THEN /\ GroupKeys \subseteq DOMAIN formatted.data[k]
                 /\ UserKeys \cap DOMAIN formatted.data[k] = {}
            ELSE /\ UserKeys \subseteq DOMAIN formatted.data[k]
                 /\ GroupKeys \cap DOMAIN formatted.data[k] = {}

\* a bucket of group 2 was formatted
C14_Witness ==
    /\ DirectResolved
    /\ DirectGroupBy = "group"
    /\ formatted.state = "returned"
    /\ \E k \in DOMAIN formatted.data :
           /\ formatted.data[k].groupId = 2
           /\ formatted.data[k].groupName = "Support"
           /\ DOMAIN formatted.data[k] = {"timeWindow", "groupId", "groupName", "metrics"}

----------------------------------------------------------------------------
(* The store client of db.js, checked under SpecClient: the HTTP server with  *)
(* another caller of getClient beside the service                             *)

\* another module calls db.getClient() between two requests and keeps what it
\* got
CallGetClient ==
    /\ pc = "idle"
    /\ getClient
    /\ held' = client'
    /\ UNCHANGED <<sales, user_groups, pc, entry, req, svcCalls, queries, settled,
                   formatted, responses>>

InitClient ==
    /\ sales = SampleSales
    /\ user_groups \in MembershipContents
    /\ InitProcess

NextClient ==
    \/ CallGetClient
    \/ Next

SpecClient == InitClient /\ [][NextClient]_vars

\* C15: over any sequence of getClient calls of one process the Client is
\* constructed at most once and connect() is invoked at most once, and every
\* call returns that one instance, the one the module holds.
C15_ClientIsSingleton ==
    /\ constructed <= 1
    /\ connects <= 1
    /\ Cardinality(returned) <= 1
    /\ returned # {} => returned = {client}
    /\ held # 0 => held = client

\* getClient was called by another module and by the service of the request
\* in flight: one Client, connected once, returned to both
C15_Witness ==
    /\ held = 1
    /\ pc = "awaiting"
    /\ Len(queries) = 1
    /\ returned = {1}
    /\ constructed = 1
    /\ connects = 1

----------------------------------------------------------------------------
(* The placeholders of the query, checked under SpecService *)

\* the filters of the current direct call that bind a value, in the order
\* startDate, endDate, id list, each with the predicate it adds and the value
\* it binds
BindingFilters ==
    (IF Truthy(DirectOptions.startDate)
     THEN << [col |-> "s.date", op |-> ">=", value |-> TextParam(DirectOptions.startDate.v)] >>
     ELSE << >>)
    \o
    (IF Truthy(DirectOptions.endDate)
     THEN << [col |-> "s.date", op |-> "<=", value |-> TextParam(DirectOptions.endDate.v)] >>
     ELSE << >>)
    \o
    (IF /\ DirectGroupBy = "user"
        /\ TruthyChars(DirectOptions.userId)
        /\ PrefixValues(DirectOptions.userId.v) # << >>
     THEN << [col |-> "u.id", op |-> "= ANY",
              value |-> IntArrayParam(PrefixValues(DirectOptions.userId.v))] >>
     ELSE << >>)
    \o
    (IF /\ DirectGroupBy = "group"
        /\ TruthyChars(DirectOptions.groupId)
        /\ PrefixValues(DirectOptions.groupId.v) # << >>
     THEN << [col |-> "g.id", op |-> "= ANY",
              value |-> IntArrayParam(PrefixValues(DirectOptions.groupId.v))] >>
     ELSE << >>)

\* C16: whichever of startDate, endDate and the applicable non-empty id list
\* are present, the placeholders of the query are $1..$n in the order
\* startDate, endDate, id list, the parameter array has exactly n entries and
\* entry i is the value of the filter that introduced $i; without filters the
\* parameter array is empty.
C16_PlaceholdersNumberedInOrder ==
    entry = "direct" /\ Len(queries) = 1 =>
        LET q == queries[1]
            n == Len(BindingFilters)
        IN  /\ Len(q.text.where) = n
            /\ Len(q.params) = n
            /\ \A i \in 1..n :
                   /\ q.text.where[i] =
                          Pred(BindingFilters[i].col, BindingFilters[i].op, i)
                   /\ q.params[i] = BindingFilters[i].value
            /\ n = 0 => q.params = << >>

\* startDate, endDate and userId=1 grouped by user: $1, $2, $3
C16_Witness ==
    /\ entry = "direct"
    /\ Len(queries) = 1
    /\ queries[1].text.where =
           << Pred("s.date", ">=", 1), Pred("s.date", "<=", 2), Pred("u.id", "= ANY", 3) >>
    /\ queries[1].params =
           << TextParam("2021-06-06"), TextParam("2021-06-06"), IntArrayParam(<<1>>) >>

----------------------------------------------------------------------------
(* The responses of a request, checked under Spec *)

\* the store query and the formatting of the current request both succeeded
QueryAndFormattingSucceeded ==
    /\ settled.state = "resolved"
    /\ formatted.state = "returned"

\* C17: a request to GET /api/sales/timeseries is never answered twice; it is
\* unanswered only while its store call is in flight; and once it is over it
\* has exactly one response, of status 400 if and only if validation failed,
\* 200 if and only if validation passed and both the store query and the
\* formatting succeeded, and 500 in every other case.
C17_ExactlyOneResponse ==
    entry = "http" =>
        /\ Len(responses) <= 1
        /\ responses = << >> <=> pc = "awaiting"
        /\ pc = "awaiting" => RequestValid /\ settled = Pending
        /\ pc = "done" =>
               /\ Len(responses) = 1
               /\ responses[1].status \in {400, 200, 500}
               /\ responses[1].status = 400 <=> RequestInvalid
               /\ responses[1].status = 200 <=>
                      RequestValid /\ QueryAndFormattingSucceeded
               /\ responses[1].status = 500 <=>
                      RequestValid /\ ~QueryAndFormattingSucceeded

\* a valid request whose query resolved without a rows array: formatting
\* threw, and the one response is the 500
C17_Witness ==
    /\ RequestValid
    /\ pc = "done"
    /\ settled.state = "resolved"
    /\ formatted.state = "threw"
    /\ Len(responses) = 1
    /\ responses[1].status = 500

====
